---- MODULE Spec2Model ----
(***************************************************************************)
(* Model of the Airtable adapter: the tool handlers of                     *)
(* src/modules/airtable/records.ts, the MCP tools of src/server.ts and the *)
(* HTTP routes /airtable/list-records and /openai/completions.  One       *)
(* request is handled at a time in Spec; SpecConcurrent interleaves        *)
(* several client-side searches.                                           *)
(*                                                                         *)
(* Strings whose characters matter (search terms, stored values, formulas) *)
(* are sequences of UTF-16 code units.  Optional values (undefined or a    *)
(* value) are sequences of length at most one: <<>> is undefined.          *)
(* Messages are sequences of text fragments, concatenated with \o.         *)
(***************************************************************************)
EXTENDS Integers, Sequences, FiniteSets

VARIABLES pc, req, calls, table, records, searchFieldNames, filterByFormula, result, apiKey

vars == <<pc, req, calls, table, records, searchFieldNames, filterByFormula, result, apiKey>>

(***************************************************************************)
(* Bounds of the model.                                                    *)
(***************************************************************************)
\* longest search term / stored string of the match specification
MaxStrLen == 2
\* longest array value of a record field
MaxArrLen == 2
\* most fields of a table schema
MaxFields == 2
\* longest search term of the formula builder
MaxTermLen == 3

(***************************************************************************)
(* Generic helpers.                                                        *)
(***************************************************************************)
None == <<>>

Some(x) == <<x>>

Range(s) == {s[i] : i \in 1..Len(s)}

SeqsUpTo(S, n) == UNION {[1..k -> S] : k \in 0..n}

RECURSIVE Concat(_)
Concat(ss) == IF ss = <<>> THEN <<>> ELSE Head(ss) \o Concat(Tail(ss))

\* Array.prototype.join
RECURSIVE Join(_, _)
Join(parts, sep) ==
    IF parts = <<>> THEN <<>>
    ELSE IF Len(parts) = 1 THEN parts[1]
    ELSE parts[1] \o sep \o Join(Tail(parts), sep)

(***************************************************************************)
(* JavaScript string primitives on sequences of code units.                *)
(***************************************************************************)
\* String.prototype.toLowerCase on one code unit, for the code units the
\* model draws: A-Z map to a-z, every other unit drawn here maps to itself
\* (305, LATIN SMALL LETTER DOTLESS I, is already lower case).
LowerUnit(c) == IF c \in 65..90 THEN c + 32 ELSE c

toLowerCase(s) == [i \in 1..Len(s) |-> LowerUnit(s[i])]

\* String.prototype.includes
includes(s, t) == \E i \in 0..(Len(s) - Len(t)) : SubSeq(s, i + 1, i + Len(t)) = t

(***************************************************************************)
(* Field values of a record, as the remote service returns them.           *)
(***************************************************************************)
StrV(s) == [type |-> "string", str |-> s, arr |-> <<>>]

ArrV(a) == [type |-> "array", str |-> <<>>, arr |-> a]

OtherV(t) == [type |-> t, str |-> <<>>, arr |-> <<>>]

Undefined == OtherV("undefined")

\* elements of an array value
StrItem(s) == [type |-> "string", str |-> s]

OtherItem(t) == [type |-> t, str |-> <<>>]

Min(a, b) == IF a < b THEN a ELSE b

\* the first n elements of a sequence
Take(s, n) == SubSeq(s, 1, Min(n, Len(s)))

\* a default parameter value (x = d) or x ?? d: d when x is undefined
DefaultTo(opt, d) == IF opt = None THEN d ELSE opt[1]

(***************************************************************************)
(* Errors.  A thrown value has a message and a string form; the string     *)
(* form of an Error is "<name>: <message>", that of the remote SDK's error *)
(* is "<message>(<error>)[Http code <status>]".                            *)
(***************************************************************************)
NewError(msg) == [name |-> "Error", message |-> msg, error |-> "", statusCode |-> ""]

String(e) ==
    IF e.name = "AirtableError"
    THEN e.message \o <<"(", e.error, ")">>
         \o (IF e.statusCode # "" THEN <<"[Http code ", e.statusCode, "]">> ELSE <<>>)
    ELSE IF e.message = <<>> THEN <<e.name>>
    ELSE <<e.name, ": ">> \o e.message

\* failures of a remote call: the SDK's error for a rejected request, or a
\* network failure
RemoteErrors ==
    { [name |-> "AirtableError", message |-> <<"Could not find what you are looking for">>,
       error |-> "NOT_FOUND", statusCode |-> "404"],
      [name |-> "AirtableError", message |-> <<"Invalid permissions, or the requested model was not found">>,
       error |-> "INVALID_PERMISSIONS_OR_MODEL_NOT_FOUND", statusCode |-> "403"],
      NewError(<<"fetch failed">>) }

\* non-success statuses of the metadata endpoint
FailureStatuses == {"401", "404"}

(***************************************************************************)
(* Outcome of a handler invocation.                                        *)
(***************************************************************************)
NoResult == [kind |-> "none", status |-> "", message |-> <<>>, details |-> <<>>, body |-> <<>>]

\* return <value>
Return(body) == [NoResult EXCEPT !.kind = "return", !.body = body]

\* throw new Error(msg)
Throw(msg) == [NoResult EXCEPT !.kind = "throw", !.message = msg]

\* return { error: msg, details }
ReturnError(msg, details) ==
    [NoResult EXCEPT !.kind = "returnError", !.message = msg, !.details = details]

(***************************************************************************)
(* Requests and remote calls.                                              *)
(***************************************************************************)
NoReq ==
    [handler |-> "none", baseId |-> None, tableIdOrName |-> None, recordId |-> None,
     searchTerm |-> None, fieldIds |-> None, fieldNames |-> None, maxRecords |-> None,
     prompt |-> None]

NoError == [name |-> "", message |-> <<>>, error |-> "", statusCode |-> ""]

\* a remote call as issued: not yet settled.  Once it has settled, response
\* is what the remote service answered with (the tables, the records) and
\* content the records the table held at the remote service.
Call(api) ==
    [api |-> api, authorization |-> None, maxRecords |-> None, filterByFormula |-> None,
     recordId |-> None, outcome |-> "pending", status |-> "", error |-> NoError,
     response |-> <<>>, content |-> <<>>]

\* fetch(`https://api.airtable.com/v0/meta/bases/${baseId}/tables`,
\*       { headers: { Authorization: `Bearer ${apiKey}` } })
MetaCall(key) == [Call("meta") EXCEPT !.authorization = Some(key)]

\* the call log with its last call settled
Resolved(log, status) ==
    [log EXCEPT ![Len(log)].outcome = "resolved", ![Len(log)].status = status]

Rejected(log, e) ==
    [log EXCEPT ![Len(log)].outcome = "rejected", ![Len(log)].error = e]

\* the call log with its last call answered with status 200 and a body
Answered(log, response, content) ==
    [Resolved(log, "200") EXCEPT ![Len(log)].response = response,
                                 ![Len(log)].content = content]

\* base(tableIdOrName).select({ maxRecords, filterByFormula })
SelectCall(maxRecords, formula) ==
    [Call("select") EXCEPT !.maxRecords = maxRecords, !.filterByFormula = formula]

\* .select(params).all(): the remote service returns the table's records in
\* its own order, at most maxRecords of them when maxRecords is given
SelectAll(content, call) ==
    IF call.maxRecords = None THEN content ELSE Take(content, call.maxRecords[1])

\* records.ts: records.map(record => ({ id, fields, createdTime }))
Simplify(recs) ==
    [i \in 1..Len(recs) |->
        [id |-> recs[i].id, fields |-> recs[i].fields, createdTime |-> recs[i].createdTime]]

\* server.ts and the HTTP route: records.map((record) => ({ id, fields }))
SimplifyTool(recs) == [i \in 1..Len(recs) |-> [id |-> recs[i].id, fields |-> recs[i].fields]]

(***************************************************************************)
(* Table schema (metadata endpoint).                                       *)
(***************************************************************************)
\* mutant: the linked-record type is missing from the list
textFieldTypes_noLinks ==
    <<"singleLineText", "multilineText", "richText", "email", "url", "phone">>

textFieldTypes ==
    <<"singleLineText", "multilineText", "richText", "email", "url", "phone",
      "multipleRecordLinks">>

\* the field types the metadata endpoint may report: the text-like ones and
\* some others
FieldTypes ==
    {"singleLineText", "multilineText", "richText", "email", "url", "phone",
     "multipleRecordLinks", "number", "checkbox"}

IdOfField(i) == CASE i = 1 -> "fld1" [] i = 2 -> "fld2" [] i = 3 -> "fld3" [] OTHER -> "fld4"

NameOfField(i) == CASE i = 1 -> "Name" [] i = 2 -> "Tags" [] i = 3 -> "Notes" [] OTHER -> "Extra"

\* field names a record may carry
FieldNames == {NameOfField(i) : i \in 1..MaxFields}

\* the field lists a table may have: field i has the i-th id and name, any type
Schemas ==
    { [i \in 1..Len(ty) |-> [id |-> IdOfField(i), name |-> NameOfField(i), type |-> ty[i]]] :
        ty \in SeqsUpTo(FieldTypes, MaxFields) }

\* the tables of the base as the metadata endpoint lists them: another table
\* first, then the table with the given fields
Tables(fields) ==
    << [id |-> "tbl0", name |-> "Archive", fields |-> <<>>],
       [id |-> "tbl1", name |-> "Projects", fields |-> fields] >>

NoTable == [id |-> "", name |-> "", fields |-> <<>>]

(***************************************************************************)
(* Client-side search: records.ts, searchRecords.handler.                  *)
(***************************************************************************)
searchRecords_maxRecords == 100

\* mutant: the table is looked up by its id alone
findTable_byIdOnly(tables, tableIdOrName) ==
    LET hits == {i \in 1..Len(tables) : tables[i].id = tableIdOrName}
    IN  IF hits = {} THEN None
        ELSE Some(tables[CHOOSE i \in hits : \A j \in hits : i <= j])

\* schemaData.tables.find(t => t.id === tableIdOrName || t.name === tableIdOrName)
\* (the first such table, or undefined)
findTable(tables, tableIdOrName) ==
    LET hits == {i \in 1..Len(tables) :
                    tables[i].id = tableIdOrName \/ tables[i].name = tableIdOrName}
    IN  IF hits = {} THEN None
        ELSE Some(tables[CHOOSE i \in hits : \A j \in hits : i <= j])

\* .map((f: any) => f.name)
fieldNamesOf(fields) == [i \in 1..Len(fields) |-> fields[i].name]

\* mutant: the explicit branch also requires a text-like type
searchFieldNamesOf_typeFiltered(tbl, fieldIds) ==
    IF fieldIds # None /\ Len(fieldIds[1]) > 0
    THEN fieldNamesOf(SelectSeq(tbl.fields, LAMBDA f : f.id \in Range(fieldIds[1])
                                              /\ f.type \in Range(textFieldTypes)))
    ELSE fieldNamesOf(SelectSeq(tbl.fields, LAMBDA f : f.type \in Range(textFieldTypes)))

\* mutant: explicit ids that resolve to nothing fall back to the text-like fields
searchFieldNamesOf_fallback(tbl, fieldIds) ==
    LET byId == IF fieldIds = None THEN <<>>
                ELSE SelectSeq(tbl.fields, LAMBDA f : f.id \in Range(fieldIds[1]))
    IN  IF byId # <<>>
        THEN fieldNamesOf(byId)
        ELSE fieldNamesOf(SelectSeq(tbl.fields, LAMBDA f : f.type \in Range(textFieldTypes)))

\* "Determine which fields to search"
searchFieldNamesOf(tbl, fieldIds) ==
    IF fieldIds # None /\ Len(fieldIds[1]) > 0
    THEN fieldNamesOf(SelectSeq(tbl.fields, LAMBDA f : f.id \in Range(fieldIds[1])))
    ELSE fieldNamesOf(SelectSeq(tbl.fields, LAMBDA f : f.type \in Range(textFieldTypes)))

\* record.fields[fieldName]
FieldValue(record, fieldName) ==
    IF fieldName \in DOMAIN record.fields THEN record.fields[fieldName] ELSE Undefined

\* mutant: an array value matches only when every element matches
valueMatches_every(value, searchTerm) ==
    IF value.type = "string"
    THEN includes(toLowerCase(value.str), toLowerCase(searchTerm))
    ELSE IF value.type = "array"
    THEN \A i \in 1..Len(value.arr) :
            /\ value.arr[i].type = "string"
            /\ includes(toLowerCase(value.arr[i].str), toLowerCase(searchTerm))
    ELSE FALSE

\* mutant: the search term is compared as given, not lowercased
valueMatches_termAsGiven(value, searchTerm) ==
    IF value.type = "string"
    THEN includes(toLowerCase(value.str), searchTerm)
    ELSE IF value.type = "array"
    THEN \E i \in 1..Len(value.arr) :
            /\ value.arr[i].type = "string"
            /\ includes(toLowerCase(value.arr[i].str), searchTerm)
    ELSE FALSE

\* the body of searchFieldNames.some(fieldName => ...): does this value match
valueMatches(value, searchTerm) ==
    IF value.type = "string"
    THEN includes(toLowerCase(value.str), toLowerCase(searchTerm))
    ELSE IF value.type = "array"
    THEN \E i \in 1..Len(value.arr) :
            /\ value.arr[i].type = "string"
            /\ includes(toLowerCase(value.arr[i].str), toLowerCase(searchTerm))
    ELSE FALSE

\* mutant: the matches come out last first
matchingRecords_reversed(recs, names, searchTerm) ==
    LET kept == SelectSeq(recs, LAMBDA record :
                    \E k \in 1..Len(names) :
                        valueMatches(FieldValue(record, names[k]), searchTerm))
    IN  [i \in 1..Len(kept) |-> kept[Len(kept) + 1 - i]]

\* records.filter(record => searchFieldNames.some(...))
matchingRecords(recs, names, searchTerm) ==
    SelectSeq(recs, LAMBDA record :
        \E k \in 1..Len(names) : valueMatches(FieldValue(record, names[k]), searchTerm))

\* mutant: the records are selected without a limit
searchRecords_selectParams_noLimit(maxRecords) == SelectCall(None, None)

\* base(tableIdOrName).select({ maxRecords }), maxRecords defaulted
searchRecords_selectParams(maxRecords) ==
    SelectCall(Some(DefaultTo(maxRecords, searchRecords_maxRecords)), None)

\* the catch block: throw new Error(`Failed to search records: ${error}`)
searchRecords_catch(error) == Throw(<<"Failed to search records: ">> \o String(error))

\* the handler from its call to the first await: the schema fetch is issued
searchRecords_handler(baseId, tableIdOrName, searchTerm, fieldIds, maxRecords) ==
    /\ pc = "idle"
    /\ req' = [NoReq EXCEPT !.handler = "searchRecords", !.baseId = Some(baseId),
                            !.tableIdOrName = Some(tableIdOrName),
                            !.searchTerm = Some(searchTerm), !.fieldIds = fieldIds,
                            !.maxRecords = maxRecords]
    /\ calls' = <<MetaCall(apiKey)>>
    /\ pc' = "searchRecords_schema"
    /\ UNCHANGED <<table, records, searchFieldNames, filterByFormula, result, apiKey>>

\* the schema fetch settles: rejected, a non-success status, or the tables
searchRecords_schema(tableLists) ==
    /\ pc = "searchRecords_schema"
    /\ \/ \E e \in RemoteErrors :
            /\ e.name = "Error"
            /\ result' = searchRecords_catch(e)
            /\ calls' = Rejected(calls, e)
            /\ pc' = "done"
            /\ UNCHANGED table
       \/ \E status \in FailureStatuses :
            /\ result' = searchRecords_catch(
                            NewError(<<"Schema API responded with status ", status>>))
            /\ calls' = Resolved(calls, status)
            /\ pc' = "done"
            /\ UNCHANGED table
       \/ \E tables \in tableLists :
            LET found == findTable(tables, req.tableIdOrName[1])
            IN  IF found = None
                THEN /\ result' = searchRecords_catch(
                                    NewError(<<"Table ", req.tableIdOrName[1], " not found">>))
                     /\ calls' = Answered(calls, tables, <<>>)
                     /\ pc' = "done"
                     /\ UNCHANGED table
                ELSE /\ table' = found[1]
                     /\ calls' = Append(Answered(calls, tables, <<>>),
                                        searchRecords_selectParams(req.maxRecords))
                     /\ pc' = "searchRecords_select"
                     /\ UNCHANGED result
    /\ UNCHANGED <<req, records, searchFieldNames, filterByFormula, apiKey>>

\* the record fetch settles: rejected, or the records; then the fields are
\* resolved, the records filtered and the matches returned
searchRecords_select(contents) ==
    /\ pc = "searchRecords_select"
    /\ \/ \E e \in RemoteErrors :
            /\ result' = searchRecords_catch(e)
            /\ calls' = Rejected(calls, e)
            /\ UNCHANGED <<records, searchFieldNames>>
       \/ \E content \in contents :
            LET fetched == SelectAll(content, calls[Len(calls)])
                names == searchFieldNamesOf(table, req.fieldIds)
            IN  /\ calls' = Answered(calls, fetched, content)
                /\ records' = fetched
                /\ searchFieldNames' = names
                /\ IF Len(names) = 0
                   THEN result' = searchRecords_catch(NewError(<<"No searchable fields found">>))
                   ELSE result' = Return(Simplify(matchingRecords(fetched, names,
                                                                  req.searchTerm[1])))
    /\ pc' = "done"
    /\ UNCHANGED <<req, table, filterByFormula, apiKey>>

(***************************************************************************)
(* Server-side search: server.ts, searchRecordsTool.handler.  The formula  *)
(* is the sequence of its characters.                                      *)
(***************************************************************************)
searchRecordsTool_maxRecords == 100

\* mutant: only the first double quote is doubled (replace without /g)
escapeQuotes_firstOnly(searchTerm) ==
    LET quotes == {i \in 1..Len(searchTerm) : searchTerm[i] = 34}
    IN  IF quotes = {} THEN searchTerm
        ELSE LET q == CHOOSE i \in quotes : \A j \in quotes : i <= j
             IN  SubSeq(searchTerm, 1, q) \o <<34>> \o SubSeq(searchTerm, q + 1, Len(searchTerm))

\* searchTerm.replace(/"/g, '""')
escapeQuotes(searchTerm) ==
    Concat([i \in 1..Len(searchTerm) |->
              IF searchTerm[i] = 34 THEN <<34, 34>> ELSE <<searchTerm[i]>>])

\* `FIND(LOWER("${...}"), LOWER({${fieldName}}))`
searchFormulaPart(fieldName, searchTerm) ==
    <<70, 73, 78, 68, 40, 76, 79, 87, 69, 82, 40, 34>>
    \o escapeQuotes(searchTerm)
    \o <<34, 41, 44, 32, 76, 79, 87, 69, 82, 40, 123>>
    \o fieldName
    \o <<125, 41, 41>>

\* mutant: only the first field name is searched
buildFilterByFormula_firstFieldOnly(fieldNames, searchTerm) ==
    <<79, 82, 40>> \o searchFormulaPart(fieldNames[1], searchTerm) \o <<41>>

\* `OR(${searchFormulaParts.join(", ")})`
buildFilterByFormula(fieldNames, searchTerm) ==
    <<79, 82, 40>>
    \o Join([i \in 1..Len(fieldNames) |-> searchFormulaPart(fieldNames[i], searchTerm)],
            <<44, 32>>)
    \o <<41>>

\* mutant: an empty fieldNames array passes the guard
missingFieldNames_undefinedOnly(fieldNames) == fieldNames = None

\* !fieldNames || fieldNames.length === 0
missingFieldNames(fieldNames) == fieldNames = None \/ Len(fieldNames[1]) = 0

\* searchTerm.replace(...) when searchTerm is undefined
replaceOfUndefined ==
    [name |-> "TypeError",
     message |-> <<"Cannot read properties of undefined (reading 'replace')">>,
     error |-> "", statusCode |-> ""]

\* mutant: the catch block does not recompute the formula
searchRecordsTool_catch_noFormula(error, fieldNames, searchTerm) ==
    ReturnError(error.message, String(error))

\* the catch block: return { error: error.message, details: error.toString(),
\* constructedFormula: `OR(${fieldNames.map(...).join(", ")})` }.  The formula is
\* built again for the payload (fieldNames is not empty here), which throws out
\* of the catch block, and so out of the handler, when searchTerm is undefined.
searchRecordsTool_catch(error, fieldNames, searchTerm) ==
    IF searchTerm = None
    THEN Throw(replaceOfUndefined.message)
    ELSE ReturnError(error.message, String(error))

\* the handler from its call: the guard on fieldNames, then the formula is
\* built (which throws into the catch block when searchTerm is undefined) and
\* the select issued
searchRecordsTool_handler(baseId, tableIdOrName, searchTerm, fieldNames, maxRecords) ==
    /\ pc = "idle"
    /\ req' = [NoReq EXCEPT !.handler = "searchRecordsTool", !.baseId = Some(baseId),
                            !.tableIdOrName = Some(tableIdOrName),
                            !.searchTerm = searchTerm, !.fieldNames = fieldNames,
                            !.maxRecords = maxRecords]
    /\ IF missingFieldNames(fieldNames)
       THEN /\ result' = ReturnError(
                   <<"The 'fieldNames' array must be provided and contain at least one field name to search in.">>,
                   <<>>)
            /\ pc' = "done"
            /\ UNCHANGED <<calls, filterByFormula>>
       ELSE IF searchTerm = None
       THEN /\ result' = searchRecordsTool_catch(replaceOfUndefined, fieldNames, searchTerm)
            /\ pc' = "done"
            /\ UNCHANGED <<calls, filterByFormula>>
       ELSE LET formula == buildFilterByFormula(fieldNames[1], searchTerm[1])
            IN  /\ filterByFormula' = Some(formula)
                /\ calls' = <<SelectCall(Some(DefaultTo(maxRecords, searchRecordsTool_maxRecords)),
                                         Some(formula))>>
                /\ pc' = "searchRecordsTool_select"
                /\ UNCHANGED result
    /\ UNCHANGED <<table, records, searchFieldNames, apiKey>>

\* the select settles: rejected, or the records the remote service kept
searchRecordsTool_select(contents) ==
    /\ pc = "searchRecordsTool_select"
    /\ \/ \E e \in RemoteErrors :
            /\ result' = searchRecordsTool_catch(e, req.fieldNames, req.searchTerm)
            /\ calls' = Rejected(calls, e)
       \/ \E content \in contents :
            LET fetched == SelectAll(content, calls[Len(calls)])
            IN  /\ result' = Return(SimplifyTool(fetched))
                /\ calls' = Answered(calls, fetched, content)
    /\ pc' = "done"
    /\ UNCHANGED <<req, table, records, searchFieldNames, filterByFormula, apiKey>>

(***************************************************************************)
(* Record Accessor: records.ts, the handlers of listRecords, getRecord,    *)
(* createRecord, updateRecord and deleteRecord.                            *)
(***************************************************************************)
listRecords_maxRecords == 100

\* base(tableIdOrName).find / create / update / destroy
RecordCall(api, recordId) == [Call(api) EXCEPT !.recordId = recordId]

\* the request of a record operation
RecordReq(handler, baseId, tableIdOrName, recordId, maxRecords) ==
    [NoReq EXCEPT !.handler = handler, !.baseId = baseId, !.tableIdOrName = tableIdOrName,
                  !.recordId = recordId, !.maxRecords = maxRecords]

\* the result of a delete: { id, deleted: true }
Deleted(record) == [id |-> record.id, deleted |-> TRUE]

\* listRecords: throw new Error(`Failed to list records: ${error}`)
listRecords_catch(error) == Throw(<<"Failed to list records: ">> \o String(error))

\* listRecords: the select is issued with maxRecords defaulted (view and sort
\* are passed through when given)
listRecords_handler(baseId, tableIdOrName, maxRecords) ==
    /\ pc = "idle"
    /\ req' = RecordReq("listRecords", Some(baseId), Some(tableIdOrName), None, maxRecords)
    /\ calls' = <<SelectCall(Some(DefaultTo(maxRecords, listRecords_maxRecords)), None)>>
    /\ pc' = "listRecords_select"
    /\ UNCHANGED <<table, records, searchFieldNames, filterByFormula, result, apiKey>>

listRecords_select(contents) ==
    /\ pc = "listRecords_select"
    /\ \/ \E e \in RemoteErrors :
            /\ result' = listRecords_catch(e)
            /\ calls' = Rejected(calls, e)
       \/ \E content \in contents :
            /\ result' = Return(Simplify(SelectAll(content, calls[Len(calls)])))
            /\ calls' = Resolved(calls, "200")
    /\ pc' = "done"
    /\ UNCHANGED <<req, table, records, searchFieldNames, filterByFormula, apiKey>>

\* getRecord: throw new Error(`Failed to get record: ${error}`)
getRecord_catch(error) == Throw(<<"Failed to get record: ">> \o String(error))

\* getRecord: recordId is the caller's, given or not; it is passed to find
\* as it is
getRecord_handler(baseId, tableIdOrName, recordId) ==
    /\ pc = "idle"
    /\ req' = RecordReq("getRecord", Some(baseId), Some(tableIdOrName), recordId, None)
    /\ calls' = <<RecordCall("find", recordId)>>
    /\ pc' = "getRecord_find"
    /\ UNCHANGED <<table, records, searchFieldNames, filterByFormula, result, apiKey>>

getRecord_find(remoteRecords) ==
    /\ pc = "getRecord_find"
    /\ \/ \E e \in RemoteErrors :
            /\ result' = getRecord_catch(e)
            /\ calls' = Rejected(calls, e)
       \/ \E record \in remoteRecords :
            /\ result' = Return(Simplify(<<record>>))
            /\ calls' = Resolved(calls, "200")
    /\ pc' = "done"
    /\ UNCHANGED <<req, table, records, searchFieldNames, filterByFormula, apiKey>>

\* createRecord: throw new Error(`Failed to create record: ${error}`)
createRecord_catch(error) == Throw(<<"Failed to create record: ">> \o String(error))

createRecord_handler(baseId, tableIdOrName) ==
    /\ pc = "idle"
    /\ req' = RecordReq("createRecord", Some(baseId), Some(tableIdOrName), None, None)
    /\ calls' = <<RecordCall("create", None)>>
    /\ pc' = "createRecord_create"
    /\ UNCHANGED <<table, records, searchFieldNames, filterByFormula, result, apiKey>>

createRecord_create(remoteRecords) ==
    /\ pc = "createRecord_create"
    /\ \/ \E e \in RemoteErrors :
            /\ result' = createRecord_catch(e)
            /\ calls' = Rejected(calls, e)
       \/ \E record \in remoteRecords :
            /\ result' = Return(Simplify(<<record>>))
            /\ calls' = Resolved(calls, "200")
    /\ pc' = "done"
    /\ UNCHANGED <<req, table, records, searchFieldNames, filterByFormula, apiKey>>

\* updateRecord: throw new Error(`Failed to update record: ${error}`)
updateRecord_catch(error) == Throw(<<"Failed to update record: ">> \o String(error))

updateRecord_handler(baseId, tableIdOrName, recordId) ==
    /\ pc = "idle"
    /\ req' = RecordReq("updateRecord", Some(baseId), Some(tableIdOrName), Some(recordId), None)
    /\ calls' = <<RecordCall("update", Some(recordId))>>
    /\ pc' = "updateRecord_update"
    /\ UNCHANGED <<table, records, searchFieldNames, filterByFormula, result, apiKey>>

updateRecord_update(remoteRecords) ==
    /\ pc = "updateRecord_update"
    /\ \/ \E e \in RemoteErrors :
            /\ result' = updateRecord_catch(e)
            /\ calls' = Rejected(calls, e)
       \/ \E record \in remoteRecords :
            /\ result' = Return(Simplify(<<record>>))
            /\ calls' = Resolved(calls, "200")
    /\ pc' = "done"
    /\ UNCHANGED <<req, table, records, searchFieldNames, filterByFormula, apiKey>>

\* mutant: the failure is re-signalled without the remote error
deleteRecord_catch_noCause(error) == Throw(<<"Failed to delete record">>)

\* deleteRecord: throw new Error(`Failed to delete record: ${error}`)
deleteRecord_catch(error) == Throw(<<"Failed to delete record: ">> \o String(error))

deleteRecord_handler(baseId, tableIdOrName, recordId) ==
    /\ pc = "idle"
    /\ req' = RecordReq("deleteRecord", Some(baseId), Some(tableIdOrName), Some(recordId), None)
    /\ calls' = <<RecordCall("destroy", Some(recordId))>>
    /\ pc' = "deleteRecord_destroy"
    /\ UNCHANGED <<table, records, searchFieldNames, filterByFormula, result, apiKey>>

deleteRecord_destroy(remoteRecords) ==
    /\ pc = "deleteRecord_destroy"
    /\ \/ \E e \in RemoteErrors :
            /\ result' = deleteRecord_catch(e)
            /\ calls' = Rejected(calls, e)
       \/ \E record \in remoteRecords :
            /\ result' = Return(<<Deleted(record)>>)
            /\ calls' = Resolved(calls, "200")
    /\ pc' = "done"
    /\ UNCHANGED <<req, table, records, searchFieldNames, filterByFormula, apiKey>>

(***************************************************************************)
(* Record Accessor: server.ts, the tools airtable_list_records,            *)
(* airtable_get_record, airtable_create_record, airtable_update_record and *)
(* airtable_delete_record.                                                 *)
(***************************************************************************)
\* listRecordsTool: return { error: error.message, details: error.toString() }
listRecordsTool_catch(error) == ReturnError(error.message, String(error))

\* listRecordsTool: the input's maxRecords and filterByFormula are passed to
\* select as they are (with view, fields and sort)
listRecordsTool_handler(baseId, tableIdOrName, maxRecords, formula) ==
    /\ pc = "idle"
    /\ req' = RecordReq("listRecordsTool", Some(baseId), Some(tableIdOrName), None, maxRecords)
    /\ calls' = <<SelectCall(maxRecords, formula)>>
    /\ pc' = "listRecordsTool_select"
    /\ UNCHANGED <<table, records, searchFieldNames, filterByFormula, result, apiKey>>

listRecordsTool_select(contents) ==
    /\ pc = "listRecordsTool_select"
    /\ \/ \E e \in RemoteErrors :
            /\ result' = listRecordsTool_catch(e)
            /\ calls' = Rejected(calls, e)
       \/ \E content \in contents :
            /\ result' = Return(SimplifyTool(SelectAll(content, calls[Len(calls)])))
            /\ calls' = Resolved(calls, "200")
    /\ pc' = "done"
    /\ UNCHANGED <<req, table, records, searchFieldNames, filterByFormula, apiKey>>

\* getRecordTool: return { error: error.message, details: error.toString() }
getRecordTool_catch(error) == ReturnError(error.message, String(error))

getRecordTool_handler(baseId, tableIdOrName, recordId) ==
    /\ pc = "idle"
    /\ req' = RecordReq("getRecordTool", Some(baseId), Some(tableIdOrName), Some(recordId), None)
    /\ calls' = <<RecordCall("find", Some(recordId))>>
    /\ pc' = "getRecordTool_find"
    /\ UNCHANGED <<table, records, searchFieldNames, filterByFormula, result, apiKey>>

getRecordTool_find(remoteRecords) ==
    /\ pc = "getRecordTool_find"
    /\ \/ \E e \in RemoteErrors :
            /\ result' = getRecordTool_catch(e)
            /\ calls' = Rejected(calls, e)
       \/ \E record \in remoteRecords :
            /\ result' = Return(SimplifyTool(<<record>>))
            /\ calls' = Resolved(calls, "200")
    /\ pc' = "done"
    /\ UNCHANGED <<req, table, records, searchFieldNames, filterByFormula, apiKey>>

\* createRecordTool: return { error: error.message, details: error.toString() }
createRecordTool_catch(error) == ReturnError(error.message, String(error))

createRecordTool_handler(baseId, tableIdOrName) ==
    /\ pc = "idle"
    /\ req' = RecordReq("createRecordTool", Some(baseId), Some(tableIdOrName), None, None)
    /\ calls' = <<RecordCall("create", None)>>
    /\ pc' = "createRecordTool_create"
    /\ UNCHANGED <<table, records, searchFieldNames, filterByFormula, result, apiKey>>

createRecordTool_create(remoteRecords) ==
    /\ pc = "createRecordTool_create"
    /\ \/ \E e \in RemoteErrors :
            /\ result' = createRecordTool_catch(e)
            /\ calls' = Rejected(calls, e)
       \/ \E record \in remoteRecords :
            /\ result' = Return(SimplifyTool(<<record>>))
            /\ calls' = Resolved(calls, "200")
    /\ pc' = "done"
    /\ UNCHANGED <<req, table, records, searchFieldNames, filterByFormula, apiKey>>

\* updateRecordTool: return { error: error.message, details: error.toString() }
updateRecordTool_catch(error) == ReturnError(error.message, String(error))

updateRecordTool_handler(baseId, tableIdOrName, recordId) ==
    /\ pc = "idle"
    /\ req' = RecordReq("updateRecordTool", Some(baseId), Some(tableIdOrName), Some(recordId), None)
    /\ calls' = <<RecordCall("update", Some(recordId))>>
    /\ pc' = "updateRecordTool_update"
    /\ UNCHANGED <<table, records, searchFieldNames, filterByFormula, result, apiKey>>

updateRecordTool_update(remoteRecords) ==
    /\ pc = "updateRecordTool_update"
    /\ \/ \E e \in RemoteErrors :
            /\ result' = updateRecordTool_catch(e)
            /\ calls' = Rejected(calls, e)
       \/ \E record \in remoteRecords :
            /\ result' = Return(SimplifyTool(<<record>>))
            /\ calls' = Resolved(calls, "200")
    /\ pc' = "done"
    /\ UNCHANGED <<req, table, records, searchFieldNames, filterByFormula, apiKey>>

\* deleteRecordTool: return { error: error.message, details: error.toString() }
deleteRecordTool_catch(error) == ReturnError(error.message, String(error))

deleteRecordTool_handler(baseId, tableIdOrName, recordId) ==
    /\ pc = "idle"
    /\ req' = RecordReq("deleteRecordTool", Some(baseId), Some(tableIdOrName), Some(recordId), None)
    /\ calls' = <<RecordCall("destroy", Some(recordId))>>
    /\ pc' = "deleteRecordTool_destroy"
    /\ UNCHANGED <<table, records, searchFieldNames, filterByFormula, result, apiKey>>

deleteRecordTool_destroy(remoteRecords) ==
    /\ pc = "deleteRecordTool_destroy"
    /\ \/ \E e \in RemoteErrors :
            /\ result' = deleteRecordTool_catch(e)
            /\ calls' = Rejected(calls, e)
       \/ \E record \in remoteRecords :
            /\ result' = Return(<<Deleted(record)>>)
            /\ calls' = Resolved(calls, "200")
    /\ pc' = "done"
    /\ UNCHANGED <<req, table, records, searchFieldNames, filterByFormula, apiKey>>

(***************************************************************************)
(* HTTP route POST /airtable/list-records.                                 *)
(***************************************************************************)
httpListRecords_maxRecords == 3

\* res.status(status).json({ error: msg })
HttpError(status, msg) == [NoResult EXCEPT !.kind = "http", !.status = status, !.message = msg]

\* res.json(body)
HttpJson(body) == [NoResult EXCEPT !.kind = "http", !.status = "200", !.body = body]

\* the catch block: res.status(500).json({ error: error.message })
httpListRecords_catch(error) == HttpError("500", error.message)

\* the route handler: 400 unless baseId and tableIdOrName are given, then the
\* select with every parameter defaulted
httpListRecords_handler(baseId, tableIdOrName, maxRecords, formula) ==
    /\ pc = "idle"
    /\ req' = RecordReq("httpListRecords", baseId, tableIdOrName, None, maxRecords)
    /\ IF baseId = None \/ tableIdOrName = None
       THEN /\ result' = HttpError("400", <<"baseId and tableIdOrName are required">>)
            /\ pc' = "done"
            /\ UNCHANGED calls
       ELSE /\ calls' = <<SelectCall(Some(DefaultTo(maxRecords, httpListRecords_maxRecords)),
                                    Some(DefaultTo(formula, <<>>)))>>
            /\ pc' = "httpListRecords_select"
            /\ UNCHANGED result
    /\ UNCHANGED <<table, records, searchFieldNames, filterByFormula, apiKey>>

httpListRecords_select(contents) ==
    /\ pc = "httpListRecords_select"
    /\ \/ \E e \in RemoteErrors :
            /\ result' = httpListRecords_catch(e)
            /\ calls' = Rejected(calls, e)
       \/ \E content \in contents :
            /\ result' = HttpJson(SimplifyTool(SelectAll(content, calls[Len(calls)])))
            /\ calls' = Resolved(calls, "200")
    /\ pc' = "done"
    /\ UNCHANGED <<req, table, records, searchFieldNames, filterByFormula, apiKey>>

(***************************************************************************)
(* HTTP route POST /openai/completions.                                    *)
(***************************************************************************)
\* !prompt: undefined or the empty string
missingPrompt(prompt) == prompt = None \/ prompt[1] = <<>>

\* the catch block: res.status(500).json({ error: error.message })
httpCompletions_catch(error) == HttpError("500", error.message)

\* the route handler: 400 unless a prompt is given, then the completion is
\* requested (model and max_tokens are passed with their defaults)
httpCompletions_handler(prompt) ==
    /\ pc = "idle"
    /\ req' = [NoReq EXCEPT !.handler = "httpCompletions", !.prompt = prompt]
    /\ IF missingPrompt(prompt)
       THEN /\ result' = HttpError("400", <<"prompt is required">>)
            /\ pc' = "done"
            /\ UNCHANGED calls
       ELSE /\ calls' = <<Call("completion")>>
            /\ pc' = "httpCompletions_create"
            /\ UNCHANGED result
    /\ UNCHANGED <<table, records, searchFieldNames, filterByFormula, apiKey>>

\* the completion settles: rejected, or the response, which is sent as it is
httpCompletions_create(errors, responses) ==
    /\ pc = "httpCompletions_create"
    /\ \/ \E e \in errors :
            /\ result' = httpCompletions_catch(e)
            /\ calls' = Rejected(calls, e)
       \/ \E response \in responses :
            /\ result' = HttpJson(response)
            /\ calls' = Answered(calls, response, <<>>)
    /\ pc' = "done"
    /\ UNCHANGED <<req, table, records, searchFieldNames, filterByFormula, apiKey>>

(***************************************************************************)
(* Inputs and remote data of the main specification.                       *)
(***************************************************************************)
\* a record of the remote service's SDK
Rec(id, name, tags) ==
    [id |-> id,
     fields |-> [n \in FieldNames |->
                    IF n = "Name" THEN name ELSE IF n = "Tags" THEN tags ELSE Undefined],
     createdTime |-> "2024-01-01T00:00:00.000Z",
     _table |-> "tbl1"]

\* "Ii", ["i", dotless i]
rec1 == Rec("rec1", StrV(<<73, 105>>), ArrV(<<StrItem(<<105>>), StrItem(<<305>>)>>))

\* dotless i, [7]
rec2 == Rec("rec2", StrV(<<305>>), ArrV(<<OtherItem("number")>>))

\* 7, absent
rec3 == Rec("rec3", OtherV("number"), Undefined)

\* "i", absent
rec4 == Rec("rec4", StrV(<<105>>), Undefined)

TableContents == {<<>>, <<rec1, rec2, rec3>>, <<rec2, rec1>>, <<rec4, rec2, rec1>>}

TableRefs == {"tbl1", "Projects", "Missing"}

FieldIdLists ==
    {None, Some(<<>>), Some(<<"fld1">>), Some(<<"fld2">>), Some(<<"fldX">>),
     Some(<<"fld1", "fld2">>), Some(<<"fld2", "fldX">>), Some(<<"fldX", "fld1">>),
     Some(<<"fldX", "fldX">>)}

SearchTerms == {<<105>>}

MaxRecordsArgs == {None, Some(1), Some(2)}

RecordIds == {"rec1", "recMissing"}

\* the recordId of a request: left out, or one of these ids
RecordIdArgs == {None} \cup {Some(id) : id \in RecordIds}

\* process.env.AIRTABLE_API_KEY, which is set when the module has loaded
ApiKeys == {"patToken"}

\* the records a get, create, update or delete may answer with
RemoteRecords == {rec1, rec2}

\* a caller's filterByFormula: absent, or {Name}
FormulaArgs == {None, Some(<<123, 78, 97, 109, 101, 125>>)}

\* the prompt of a completion request: left out, empty, or a text
Prompts == {None, Some(<<>>), Some(<<"Say hello">>)}

\* failures of the completion API
CompletionErrors == {NewError(<<"401 No auth credentials found">>)}

\* a chat completion as the completion API answers
CompletionResponses == {<<[role |-> "assistant", content |-> "Hello!"]>>}

OptionalIds == {None, Some("app1")}

OptionalTables == {None, Some("tbl1")}

\* search terms of the formula builder: the double quote, "a" and the backslash
FormulaTerms == SeqsUpTo({34, 97, 92}, MaxTermLen)

\* the searchTerm of a tool input: left out, or one of these terms
FormulaTermArgs == {None} \cup {Some(t) : t \in FormulaTerms}

\* absent, empty, ["Name"], ["Name", "Tags"]
FieldNameLists ==
    {None, Some(<<>>), Some(<< <<78, 97, 109, 101>> >>),
     Some(<< <<78, 97, 109, 101>>, <<84, 97, 103, 115>> >>)}

(***************************************************************************)
(* Inputs and remote data of the match specification: one search over a    *)
(* table with a text field and a linked-record field, the search term and  *)
(* the stored values drawn from every string and array up to the bounds.   *)
(***************************************************************************)
\* "I", "i" and the dotless i
CaseUnits == {73, 105, 305}

Strings == SeqsUpTo(CaseUnits, MaxStrLen)

\* "I", the dotless i, and a number
ArrayItems == {StrItem(<<73>>), StrItem(<<305>>), OtherItem("number")}

Values ==
    {StrV(s) : s \in Strings}
    \cup {ArrV(a) : a \in SeqsUpTo(ArrayItems, MaxArrLen)}
    \cup {OtherV(t) : t \in {"undefined", "null", "number", "boolean", "object"}}

TagsValues ==
    {Undefined, OtherV("object"), StrV(<<105>>),
     ArrV(<<OtherItem("number"), StrItem(<<305>>)>>)}

MatchContents == {<<Rec("rec1", v, w)>> : v \in Values, w \in TagsValues}

MatchTable ==
    [id |-> "tbl1", name |-> "Projects",
     fields |-> << [id |-> "fld1", name |-> "Name", type |-> "singleLineText"],
                   [id |-> "fld2", name |-> "Tags", type |-> "multipleRecordLinks"] >>]

\* a search that has found its table and awaits the records
InitMatch ==
    /\ apiKey \in ApiKeys
    /\ pc = "searchRecords_select"
    /\ \E term \in Strings, ids \in {None, Some(<<"fld1">>), Some(<<"fld2">>)} :
          req = [NoReq EXCEPT !.handler = "searchRecords", !.baseId = Some("app1"),
                              !.tableIdOrName = Some("tbl1"), !.searchTerm = Some(term),
                              !.fieldIds = ids]
    /\ calls = <<Answered(<<MetaCall(apiKey)>>, <<MatchTable>>, <<>>)[1],
                 searchRecords_selectParams(None)>>
    /\ table = MatchTable
    /\ records = <<>>
    /\ searchFieldNames = <<>>
    /\ filterByFormula = None
    /\ result = NoResult

NextMatch == searchRecords_select(MatchContents)

SpecMatch == InitMatch /\ [][NextMatch]_vars

\* the handler has returned or thrown; the next request may start
Reset ==
    /\ pc = "done"
    /\ pc' = "idle"
    /\ req' = NoReq
    /\ calls' = <<>>
    /\ table' = NoTable
    /\ records' = <<>>
    /\ searchFieldNames' = <<>>
    /\ filterByFormula' = None
    /\ result' = NoResult
    /\ UNCHANGED apiKey

Init ==
    /\ pc = "idle"
    /\ req = NoReq
    /\ calls = <<>>
    /\ table = NoTable
    /\ records = <<>>
    /\ searchFieldNames = <<>>
    /\ filterByFormula = None
    /\ result = NoResult
    /\ apiKey \in ApiKeys

Next ==
    \/ \E t \in TableRefs, term \in SearchTerms, ids \in FieldIdLists, m \in MaxRecordsArgs :
          searchRecords_handler("app1", t, term, ids, m)
    \/ searchRecords_schema({Tables(fs) : fs \in Schemas})
    \/ searchRecords_select(TableContents)
    \/ \E term \in FormulaTermArgs, names \in FieldNameLists, m \in MaxRecordsArgs :
          searchRecordsTool_handler("app1", "tbl1", term, names, m)
    \/ searchRecordsTool_select(TableContents)
    \/ \E m \in MaxRecordsArgs : listRecords_handler("app1", "tbl1", m)
    \/ listRecords_select(TableContents)
    \/ \E id \in RecordIdArgs : getRecord_handler("app1", "tbl1", id)
    \/ getRecord_find(RemoteRecords)
    \/ \E id \in RecordIds : getRecordTool_handler("app1", "tbl1", id)
    \/ getRecordTool_find(RemoteRecords)
    \/ createRecord_handler("app1", "tbl1")
    \/ createRecord_create(RemoteRecords)
    \/ createRecordTool_handler("app1", "tbl1")
    \/ createRecordTool_create(RemoteRecords)
    \/ \E id \in RecordIds : updateRecord_handler("app1", "tbl1", id)
    \/ updateRecord_update(RemoteRecords)
    \/ \E id \in RecordIds : updateRecordTool_handler("app1", "tbl1", id)
    \/ updateRecordTool_update(RemoteRecords)
    \/ \E id \in RecordIds : deleteRecord_handler("app1", "tbl1", id)
    \/ deleteRecord_destroy(RemoteRecords)
    \/ \E id \in RecordIds : deleteRecordTool_handler("app1", "tbl1", id)
    \/ deleteRecordTool_destroy(RemoteRecords)
    \/ \E m \in MaxRecordsArgs, f \in FormulaArgs : listRecordsTool_handler("app1", "tbl1", m, f)
    \/ listRecordsTool_select(TableContents)
    \/ \E b \in OptionalIds, t \in OptionalTables, m \in MaxRecordsArgs, f \in FormulaArgs :
          httpListRecords_handler(b, t, m, f)
    \/ httpListRecords_select(TableContents)
    \/ \E prompt \in Prompts : httpCompletions_handler(prompt)
    \/ httpCompletions_create(CompletionErrors, CompletionResponses)
    \/ Reset

Spec == Init /\ [][Next]_vars

(***************************************************************************)
(* Concurrent requests: several invocations of searchRecords.handler in    *)
(* flight at once.  Each invocation has its own frame (its arguments, its  *)
(* position, its local variables table, records and searchFieldNames, its  *)
(* result), so here every variable but apiKey holds one value per          *)
(* invocation.  The steps are those of the handler, from one await to the  *)
(* next; steps of different invocations interleave in any order.           *)
(***************************************************************************)
Requests == {"r1", "r2"}

\* mutant: the handler's variables are module-level, one for all invocations
Local_shared(frames, p, value) == [q \in DOMAIN frames |-> value]

\* an assignment to a variable declared inside the handler (const table,
\* const records, let searchFieldNames): it belongs to the invocation p
Local(frames, p, value) == [frames EXCEPT ![p] = value]

\* the invocation p from its call to the first await
concurrent_handler(p, baseId, tableIdOrName, searchTerm, fieldIds, maxRecords) ==
    /\ pc[p] = "idle"
    /\ req' = [req EXCEPT ![p] =
                  [NoReq EXCEPT !.handler = "searchRecords", !.baseId = Some(baseId),
                                !.tableIdOrName = Some(tableIdOrName),
                                !.searchTerm = Some(searchTerm), !.fieldIds = fieldIds,
                                !.maxRecords = maxRecords]]
    /\ calls' = [calls EXCEPT ![p] = <<MetaCall(apiKey)>>]
    /\ pc' = [pc EXCEPT ![p] = "searchRecords_schema"]
    /\ UNCHANGED <<table, records, searchFieldNames, filterByFormula, result, apiKey>>

\* the schema fetch of the invocation p settles
concurrent_schema(p, tableLists) ==
    /\ pc[p] = "searchRecords_schema"
    /\ \/ \E e \in RemoteErrors :
            /\ e.name = "Error"
            /\ result' = [result EXCEPT ![p] = searchRecords_catch(e)]
            /\ calls' = [calls EXCEPT ![p] = Rejected(calls[p], e)]
            /\ pc' = [pc EXCEPT ![p] = "done"]
            /\ UNCHANGED table
       \/ \E status \in FailureStatuses :
            /\ result' = [result EXCEPT ![p] = searchRecords_catch(
                              NewError(<<"Schema API responded with status ", status>>))]
            /\ calls' = [calls EXCEPT ![p] = Resolved(calls[p], status)]
            /\ pc' = [pc EXCEPT ![p] = "done"]
            /\ UNCHANGED table
       \/ \E tables \in tableLists :
            LET found == findTable(tables, req[p].tableIdOrName[1])
            IN  IF found = None
                THEN /\ result' = [result EXCEPT ![p] = searchRecords_catch(
                              NewError(<<"Table ", req[p].tableIdOrName[1], " not found">>))]
                     /\ calls' = [calls EXCEPT ![p] = Answered(calls[p], tables, <<>>)]
                     /\ pc' = [pc EXCEPT ![p] = "done"]
                     /\ UNCHANGED table
                ELSE /\ table' = Local(table, p, found[1])
                     /\ calls' = [calls EXCEPT ![p] =
                                    Append(Answered(calls[p], tables, <<>>),
                                           searchRecords_selectParams(req[p].maxRecords))]
                     /\ pc' = [pc EXCEPT ![p] = "searchRecords_select"]
                     /\ UNCHANGED result
    /\ UNCHANGED <<req, records, searchFieldNames, filterByFormula, apiKey>>

\* the record fetch of the invocation p settles
concurrent_select(p, contents) ==
    /\ pc[p] = "searchRecords_select"
    /\ \/ \E e \in RemoteErrors :
            /\ result' = [result EXCEPT ![p] = searchRecords_catch(e)]
            /\ calls' = [calls EXCEPT ![p] = Rejected(calls[p], e)]
            /\ UNCHANGED <<records, searchFieldNames>>
       \/ \E content \in contents :
            LET fetched == SelectAll(content, calls[p][Len(calls[p])])
                names == searchFieldNamesOf(table[p], req[p].fieldIds)
            IN  /\ calls' = [calls EXCEPT ![p] = Answered(calls[p], fetched, content)]
                /\ records' = Local(records, p, fetched)
                /\ searchFieldNames' = Local(searchFieldNames, p, names)
                /\ result' = [result EXCEPT ![p] =
                      IF Len(names) = 0
                      THEN searchRecords_catch(NewError(<<"No searchable fields found">>))
                      ELSE Return(Simplify(matchingRecords(fetched, names,
                                                           req[p].searchTerm[1])))]
    /\ pc' = [pc EXCEPT ![p] = "done"]
    /\ UNCHANGED <<req, table, filterByFormula, apiKey>>

\* the invocation p has returned or thrown: its frame is gone
concurrent_return(p) ==
    /\ pc[p] = "done"
    /\ pc' = [pc EXCEPT ![p] = "idle"]
    /\ req' = [req EXCEPT ![p] = NoReq]
    /\ calls' = [calls EXCEPT ![p] = <<>>]
    /\ table' = [table EXCEPT ![p] = NoTable]
    /\ records' = [records EXCEPT ![p] = <<>>]
    /\ searchFieldNames' = [searchFieldNames EXCEPT ![p] = <<>>]
    /\ result' = [result EXCEPT ![p] = NoResult]
    /\ UNCHANGED <<filterByFormula, apiKey>>

\* a table with a text field and a linked-record field, and one with a number
\* field alone
ConcurrentTableLists ==
    { Tables(<< [id |-> "fld1", name |-> "Name", type |-> "singleLineText"],
                [id |-> "fld2", name |-> "Tags", type |-> "multipleRecordLinks"] >>),
      Tables(<< [id |-> "fld1", name |-> "Name", type |-> "number"] >>) }

ConcurrentContents == {<<rec1, rec2, rec3>>, <<rec4, rec2, rec1>>}

InitConcurrent ==
    /\ pc = [p \in Requests |-> "idle"]
    /\ req = [p \in Requests |-> NoReq]
    /\ calls = [p \in Requests |-> <<>>]
    /\ table = [p \in Requests |-> NoTable]
    /\ records = [p \in Requests |-> <<>>]
    /\ searchFieldNames = [p \in Requests |-> <<>>]
    /\ filterByFormula = None
    /\ result = [p \in Requests |-> NoResult]
    /\ apiKey \in ApiKeys

NextConcurrent ==
    \E p \in Requests :
        \/ \E t \in {"Projects", "Missing"}, ids \in {None, Some(<<"fld2">>)},
              m \in {None, Some(1)} :
              concurrent_handler(p, "app1", t, <<105>>, ids, m)
        \/ concurrent_schema(p, ConcurrentTableLists)
        \/ concurrent_select(p, ConcurrentContents)
        \/ concurrent_return(p)

SpecConcurrent == InitConcurrent /\ [][NextConcurrent]_vars
(***************************************************************************)
(* Properties.                                                             *)
(***************************************************************************)
\* a client-side search whose record fetch succeeded, so that its fields
\* were resolved
SearchResolved ==
    /\ pc = "done"
    /\ req.handler = "searchRecords"
    /\ Len(calls) = 2
    /\ calls[2].api = "select"
    /\ calls[2].outcome = "resolved"

NoSearchableFieldsFailure ==
    /\ result.kind = "throw"
    /\ includes(result.message, <<"No searchable fields found">>)

ExplicitIds == req.fieldIds # None /\ req.fieldIds[1] # <<>>

\* the schema fields named by the request's fieldIds
FieldsById == {f \in Range(table.fields) : f.id \in Range(req.fieldIds[1])}

\* the schema fields of a text-like type, the types as the specification lists them
FieldsByType ==
    {f \in Range(table.fields) :
        f.type \in {"singleLineText", "multilineText", "richText", "email", "url",
                    "phone", "multipleRecordLinks"}}

\* C1: every client-side search that ends with the 'No searchable fields
\* found' failure has issued no record-list call to the remote service.
C1_NoFetchBeforeNoSearchableFields ==
    (pc = "done" /\ req.handler = "searchRecords" /\ NoSearchableFieldsFailure)
        => \A i \in 1..Len(calls) : calls[i].api # "select"

\* C4: with a non-empty fieldIds the resolved field set is exactly the names
\* of the schema fields whose id is in fieldIds, whatever their types; ids
\* naming no field are dropped, and the search does not fail when at least
\* one id resolves.
C4_ExplicitIdsResolveByIdOnly ==
    (SearchResolved /\ ExplicitIds)
        => /\ Range(searchFieldNames) = {f.name : f \in FieldsById}
           /\ (FieldsById # {} => result.kind = "return")

\* an id that names no field is dropped beside one that resolves to a field
\* of a type that is not text-like, and the search returns
C4_Witness ==
    /\ SearchResolved
    /\ ExplicitIds
    /\ \E id \in Range(req.fieldIds[1]) : \A f \in Range(table.fields) : f.id # id
    /\ \E f \in FieldsById : f.type = "number"
    /\ Len(searchFieldNames) = 1
    /\ result.kind = "return"

\* C5: with fieldIds absent or empty the resolved field set is exactly the
\* names of the schema fields of type singleLineText, multilineText,
\* richText, email, url, phone or multipleRecordLinks.
C5_FallbackToTextTypes ==
    (SearchResolved /\ ~ExplicitIds)
        => Range(searchFieldNames) = {f.name : f \in FieldsByType}

\* an empty fieldIds list on a table with a linked-record field and a field
\* of another type resolves to the linked-record field alone
C5_Witness ==
    /\ SearchResolved
    /\ req.fieldIds = Some(<<>>)
    /\ \E f \in Range(table.fields) : f.type = "multipleRecordLinks"
    /\ \E f \in Range(table.fields) : f.type = "checkbox"
    /\ Len(searchFieldNames) = 1

\* C6: resolution fails with the no-searchable-fields error exactly when the
\* resolved set is empty, in either branch (explicit ids naming no field do
\* not fall back to the text-like fields), and the matches are never computed
\* over an empty field set.
C6_EmptyResolutionFails ==
    SearchResolved
        => /\ NoSearchableFieldsFailure
                <=> (IF ExplicitIds THEN FieldsById = {} ELSE FieldsByType = {})
           /\ result.kind = "return" => searchFieldNames # <<>>
           /\ result.kind = "return" \/ NoSearchableFieldsFailure

\* explicit ids naming no field fail on a table that has a text-like field
C6_Witness ==
    /\ SearchResolved
    /\ ExplicitIds
    /\ FieldsById = {}
    /\ FieldsByType # {}
    /\ NoSearchableFieldsFailure
\* the returned records are the fetched records with these ids
ReturnedIds == {result.body[i].id : i \in 1..Len(result.body)}

\* t occurs in s
Occurs(t, s) == \E i \in 1..(Len(s) + 1), j \in 0..Len(s) : SubSeq(s, i, j) = t

\* C2: a fetched record is kept iff at least one resolved field's value
\* matches: a string matches iff, both lowercased, it contains the term; an
\* array matches iff one of its elements that is a string does; any other
\* value (number, boolean, object, null, absent) never matches.
C2_KeptIffSomeFieldMatches ==
    (SearchResolved /\ result.kind = "return")
        => \A r \in Range(records) :
              r.id \in ReturnedIds
                <=> \E n \in Range(searchFieldNames) :
                       LET v == FieldValue(r, n)
                           t == toLowerCase(req.searchTerm[1])
                       IN  \/ v.type = "string" /\ Occurs(t, toLowerCase(v.str))
                           \/ /\ v.type = "array"
                              /\ \E x \in Range(v.arr) :
                                    x.type = "string" /\ Occurs(t, toLowerCase(x.str))

\* both fields are searched, the first holds a number, and the record is
\* kept for an array whose second element, after a number, contains the term
C2_Witness ==
    /\ SearchResolved
    /\ Len(searchFieldNames) = 2
    /\ req.searchTerm[1] # <<>>
    /\ Len(records) = 1
    /\ records[1].fields["Name"].type = "number"
    /\ records[1].fields["Tags"] = ArrV(<<OtherItem("number"), StrItem(<<305>>)>>)
    /\ Len(result.body) = 1

\* String.prototype.toUpperCase on one code unit, for the units drawn here
UpperUnit(c) == IF c \in 97..122 THEN c - 32 ELSE IF c = 305 THEN 73 ELSE c

AsciiLetters == (65..90) \cup (97..122)

\* every code unit the model draws
AnyUnit == AsciiLetters \cup CaseUnits

\* the sequences s2 with s2[i] \in sets[i]
Pointwise(sets) ==
    {s2 \in [1..Len(sets) -> UNION Range(sets)] : \A i \in 1..Len(sets) : s2[i] \in sets[i]}

\* the strings got from s by changing the case of some of its letters, the
\* letters that may change being those of the set may
CaseChanges(s, may) ==
    Pointwise([i \in 1..Len(s) |->
                 IF s[i] \in may THEN {s[i], UpperUnit(s[i]), LowerUnit(s[i])} ELSE {s[i]}])

ValueCaseChanges(v, may) ==
    IF v.type = "string" THEN {StrV(s2) : s2 \in CaseChanges(v.str, may)}
    ELSE IF v.type = "array"
    THEN {ArrV(a2) : a2 \in Pointwise([i \in 1..Len(v.arr) |->
                                IF v.arr[i].type = "string"
                                THEN {StrItem(s2) : s2 \in CaseChanges(v.arr[i].str, may)}
                                ELSE {v.arr[i]}])}
    ELSE {v}

RecordCaseChanges(r, may) ==
    {[r EXCEPT !.fields = f2] :
        f2 \in {f \in [DOMAIN r.fields ->
                         UNION {ValueCaseChanges(r.fields[n], may) : n \in DOMAIN r.fields}] :
                    \A n \in DOMAIN r.fields : f[n] \in ValueCaseChanges(r.fields[n], may)}}

Ids(recs) == [i \in 1..Len(recs) |-> recs[i].id]

\* the search gives the same records when the case of letters of the term,
\* or of the stored strings, is changed
CaseInsensitive(may) ==
    (SearchResolved /\ result.kind = "return")
        => /\ \A t2 \in CaseChanges(req.searchTerm[1], may) :
                 Ids(matchingRecords(records, searchFieldNames, t2)) = Ids(result.body)
           /\ \A recs2 \in Pointwise([i \in 1..Len(records) |->
                                        RecordCaseChanges(records[i], may)]) :
                 Ids(matchingRecords(recs2, searchFieldNames, req.searchTerm[1]))
                    = Ids(result.body)

\* C3 as claimed: the match result is unchanged when the case of any letter
\* of the term or of a stored string is changed.
C3_AnyLetterCaseInsensitive == CaseInsensitive(AnyUnit)

\* C3 as amended: the match result is unchanged when the case of any ASCII
\* letter (A-Z, a-z) of the term or of a stored string is changed.
C3_AsciiCaseInsensitive == CaseInsensitive(AsciiLetters)

\* a record storing "i" is kept for the term "I"
C3_Witness ==
    /\ SearchResolved
    /\ req.searchTerm = Some(<<73>>)
    /\ req.fieldIds = Some(<<"fld1">>)
    /\ Len(records) = 1
    /\ records[1].fields["Name"] = StrV(<<105>>)
    /\ Len(result.body) = 1
\* The string literals of a formula, read with a doubled double quote inside a
\* literal standing for one double quote: lits are the literals' contents,
\* ok says that the formula does not end inside a literal.
RECURSIVE Lex(_, _, _, _, _)
Lex(f, i, inLiteral, cur, lits) ==
    IF i > Len(f) THEN [ok |-> ~inLiteral, lits |-> lits]
    ELSE IF ~inLiteral
    THEN Lex(f, i + 1, f[i] = 34, <<>>, lits)
    ELSE IF f[i] # 34 THEN Lex(f, i + 1, TRUE, Append(cur, f[i]), lits)
    ELSE IF i < Len(f) /\ f[i + 1] = 34 THEN Lex(f, i + 2, TRUE, Append(cur, 34), lits)
    ELSE Lex(f, i + 1, FALSE, <<>>, Append(lits, cur))

\* C7: the formula of the server-side search is well-formed for every term:
\* each string literal opened before the term is closed by the builder's own
\* closing quote, so the formula holds one literal per field name and each
\* literal reads back as the search term.
C7_TermLiteralWellFormed ==
    (req.handler = "searchRecordsTool" /\ filterByFormula # None)
        => LET lexed == Lex(filterByFormula[1], 1, FALSE, <<>>, <<>>)
           IN  /\ lexed.ok
               /\ lexed.lits = [i \in 1..Len(req.fieldNames[1]) |-> req.searchTerm[1]]

\* a formula over two fields built for a term with two double quotes
C7_Witness ==
    /\ req.handler = "searchRecordsTool"
    /\ filterByFormula # None
    /\ Len(req.fieldNames[1]) = 2
    /\ Cardinality({i \in 1..Len(req.searchTerm[1]) : req.searchTerm[1][i] = 34}) = 2
    /\ calls[1].filterByFormula = filterByFormula

\* C8: a server-side search whose fieldNames is missing or empty returns an
\* error result without building a formula and without any remote call
\* (no select, no schema fetch).
C8_MissingFieldNamesFailFirst ==
    (req.handler = "searchRecordsTool"
        /\ (req.fieldNames = None \/ req.fieldNames[1] = <<>>))
        => /\ pc = "done"
           /\ result.kind = "returnError"
           /\ calls = <<>>
           /\ filterByFormula = None

\* a server-side search with an empty fieldNames array has returned
C8_Witness ==
    /\ req.handler = "searchRecordsTool"
    /\ req.fieldNames = Some(<<>>)
    /\ pc = "done"
    /\ result.kind = "returnError"
ListHandlers == {"listRecords", "listRecordsTool", "httpListRecords"}

\* C9: on every list-records surface a request without maxRecords issues its
\* remote list call with maxRecords = 100.
C9_ListDefaultsTo100 ==
    (req.handler \in ListHandlers /\ req.maxRecords = None)
        => \A i \in 1..Len(calls) :
              calls[i].api = "select" => calls[i].maxRecords = Some(100)

RecordAccessorHandlers ==
    ListHandlers
    \cup {"getRecord", "createRecord", "updateRecord", "deleteRecord", "getRecordTool",
          "createRecordTool", "updateRecordTool", "deleteRecordTool"}

\* the handler ended by signalling a failure: a thrown error, an error-shaped
\* result, or a 500 response
SignalsFailure ==
    \/ result.kind \in {"throw", "returnError"}
    \/ result.kind = "http" /\ result.status = "500"

\* C10: for every list, get, create, update and delete, a failed remote call
\* is re-signalled as an error carrying the remote service's message, and the
\* remote call is attempted exactly once.
C10_RemoteFailureCarriedOnce ==
    req.handler \in RecordAccessorHandlers
        => /\ Len(calls) <= 1
           /\ (pc = "done" /\ Len(calls) = 1 /\ calls[1].outcome = "rejected")
                => /\ SignalsFailure
                   /\ Occurs(calls[1].error.message, result.message)

\* a delete of a record the remote service does not find
C10_Witness ==
    /\ pc = "done"
    /\ req.handler = "deleteRecord"
    /\ req.recordId = Some("recMissing")
    /\ Len(calls) = 1
    /\ calls[1].api = "destroy"
    /\ calls[1].outcome = "rejected"
    /\ calls[1].error.error = "NOT_FOUND"
    /\ result.kind = "throw"

\* C11: no handler invocation ends by propagating an exception or a rejected
\* promise to its caller: whatever the input and the remote outcome, a failure
\* ends the invocation with a structured failure response.
C11_NoHandlerPropagates == pc = "done" => result.kind # "throw"

\* the tables the metadata endpoint answered with that the request's
\* tableIdOrName names, by id or by name
NamedTables ==
    {t \in Range(calls[1].response) :
        t.id = req.tableIdOrName[1] \/ t.name = req.tableIdOrName[1]}

\* the schema fetch was answered with status 200 and a table the request names
TableLocated ==
    /\ calls[1].outcome = "resolved"
    /\ calls[1].status = "200"
    /\ NamedTables # {}

\* C12: the schema lookup of the client-side search locates a table whose id
\* or name equals tableIdOrName among the tables the metadata endpoint
\* returned, and only then is the record-list call issued; when the endpoint
\* answers with a non-success status, or no table matches, the search fails
\* with the corresponding error and no record-list call is issued.
C12_SchemaLookupGuardsFetch ==
    (req.handler = "searchRecords" /\ calls[1].outcome # "pending")
        => /\ calls[1].api = "meta"
           /\ TableLocated
                => /\ table \in NamedTables
                   /\ Len(calls) = 2
                   /\ calls[2].api = "select"
           /\ ~TableLocated
                => /\ pc = "done"
                   /\ Len(calls) = 1
                   /\ result.kind = "throw"
                   /\ (calls[1].outcome = "resolved" /\ calls[1].status # "200")
                        => Occurs(<<"Schema API responded with status ", calls[1].status>>,
                                  result.message)
                   /\ (calls[1].outcome = "resolved" /\ calls[1].status = "200")
                        => Occurs(<<"Table ", req.tableIdOrName[1], " not found">>,
                                  result.message)

\* the metadata endpoint listed two tables and neither is the one asked for:
\* the search has failed after its one call
C12_Witness ==
    /\ req.handler = "searchRecords"
    /\ pc = "done"
    /\ calls[1].status = "200"
    /\ Len(calls[1].response) = 2
    /\ NamedTables = {}
    /\ Len(calls) = 1
    /\ result.kind = "throw"

\* the request leaves out a parameter that its handler requires
MissingRequired ==
    \/ req.handler = "httpListRecords" /\ (req.baseId = None \/ req.tableIdOrName = None)
    \/ req.handler = "httpCompletions" /\ req.prompt = None
    \/ req.handler = "getRecord" /\ req.recordId = None
    \/ req.handler = "searchRecordsTool" /\ (req.searchTerm = None \/ req.fieldNames = None)

\* the invocation has ended with a failure: a thrown error, an error-shaped
\* result, or a response with status 400
Rejects ==
    /\ pc = "done"
    /\ \/ result.kind \in {"throw", "returnError"}
       \/ result.kind = "http" /\ result.status = "400"

\* C13: a request that leaves out a required parameter is rejected at once
\* with a failure and no remote call (tabular-data API or completion API) is
\* made for it.
C13_MissingParameterNoRemoteCall == MissingRequired => (Rejects /\ calls = <<>>)

\* the records the remote service answered the search's record-list call with
Fetched == calls[2].response

\* C14: the result of the client-side search is an order-preserving
\* subsequence of the fetched records: every returned record is a fetched
\* record (same id and fields), none is returned twice, and the returned
\* records keep the relative order of the fetched sequence.
C14_ResultIsSubsequence ==
    (SearchResolved /\ result.kind = "return")
        => \E at \in [1..Len(result.body) -> 1..Len(Fetched)] :
              /\ \A i, j \in 1..Len(result.body) : i < j => at[i] < at[j]
              /\ \A i \in 1..Len(result.body) :
                    /\ result.body[i].id = Fetched[at[i]].id
                    /\ result.body[i].fields = Fetched[at[i]].fields

\* three records were fetched; the first and the third are returned, in that
\* order, and the second is not
C14_Witness ==
    /\ SearchResolved
    /\ result.kind = "return"
    /\ Ids(Fetched) = <<"rec4", "rec2", "rec1">>
    /\ Ids(result.body) = <<"rec4", "rec1">>

\* the text of the formula the specification describes: one sub-expression
\* FIND(LOWER("<term, its double quotes doubled>"), LOWER({<field name>})) per
\* field name, in order, separated by ", ", inside OR( )
RECURSIVE Doubled(_)
Doubled(term) ==
    IF term = <<>> THEN <<>>
    ELSE (IF Head(term) = 34 THEN <<34, 34>> ELSE <<Head(term)>>) \o Doubled(Tail(term))

RECURSIVE SubExpressions(_, _)
SubExpressions(names, term) ==
    IF names = <<>> THEN <<>>
    ELSE <<70, 73, 78, 68, 40, 76, 79, 87, 69, 82, 40, 34>> \o Doubled(term)
         \o <<34, 41, 44, 32, 76, 79, 87, 69, 82, 40, 123>> \o Head(names) \o <<125, 41, 41>>
         \o (IF Tail(names) = <<>> THEN <<>> ELSE <<44, 32>>)
         \o SubExpressions(Tail(names), term)

\* C16: for a non-empty list of field names and a term, the server-side
\* search passes to its single remote select call the formula OR(...) over one
\* FIND(LOWER("<escaped term>"), LOWER({<field name>})) per field name, in the
\* given order, the field names verbatim; no record is evaluated locally:
\* what the remote service answers is what the search returns.
C16_FormulaIsOrOfFinds ==
    (req.handler = "searchRecordsTool" /\ calls # <<>>)
        => /\ Len(calls) = 1
           /\ calls[1].api = "select"
           /\ calls[1].filterByFormula
                = Some(<<79, 82, 40>> \o SubExpressions(req.fieldNames[1], req.searchTerm[1])
                       \o <<41>>)
           /\ records = <<>>
           /\ (pc = "done" /\ calls[1].outcome = "resolved")
                => /\ result.kind = "return"
                   /\ Ids(result.body) = Ids(calls[1].response)

\* a search of two fields for a term with a double quote has returned the two
\* records the remote service answered with
C16_Witness ==
    /\ req.handler = "searchRecordsTool"
    /\ pc = "done"
    /\ req.fieldNames # None
    /\ Len(req.fieldNames[1]) = 2
    /\ req.searchTerm = Some(<<97, 34>>)
    /\ calls # <<>>
    /\ calls[1].outcome = "resolved"
    /\ Len(calls[1].response) = 2
    /\ Len(result.body) = 2

\* the record has, in one of the resolved fields, a string that contains the
\* term or an array with such a string, both sides lowercased
Kept(r) ==
    \E n \in Range(searchFieldNames) :
        LET v == FieldValue(r, n)
            t == toLowerCase(req.searchTerm[1])
        IN  \/ v.type = "string" /\ Occurs(t, toLowerCase(v.str))
            \/ /\ v.type = "array"
               /\ \E x \in Range(v.arr) : x.type = "string" /\ Occurs(t, toLowerCase(x.str))

\* C17: in the client-side search maxRecords (100 when left out) bounds the
\* records fetched, not the matches returned: the result is exactly the
\* matching records among the first maxRecords records of the table, so it
\* never has more than maxRecords records, and a matching record after the
\* first maxRecords records is never returned.
C17_MaxRecordsBoundsFetch ==
    (SearchResolved /\ result.kind = "return")
        => LET limit == IF req.maxRecords = None THEN 100 ELSE req.maxRecords[1]
               content == calls[2].content
               first == {k \in 1..Len(content) : k <= limit}
           IN  /\ calls[2].maxRecords = Some(limit)
               /\ Len(result.body) <= limit
               /\ ReturnedIds = {content[k].id : k \in {k \in first : Kept(content[k])}}
               /\ \A k \in 1..Len(content) : k > limit => content[k].id \notin ReturnedIds

\* with maxRecords 2 the table's third record, which matches, is not returned
C17_Witness ==
    /\ SearchResolved
    /\ result.kind = "return"
    /\ req.maxRecords = Some(2)
    /\ Len(calls[2].content) = 3
    /\ Kept(calls[2].content[3])
    /\ Ids(result.body) = <<"rec4">>

\* the result of a search run alone: the handler's steps one after the other
\* on the request r and the remote answers of the call log
RunAlone(r, log) ==
    IF log[1].outcome = "rejected" THEN searchRecords_catch(log[1].error)
    ELSE IF log[1].status # "200"
    THEN searchRecords_catch(NewError(<<"Schema API responded with status ", log[1].status>>))
    ELSE LET found == findTable(log[1].response, r.tableIdOrName[1])
         IN  IF found = None
             THEN searchRecords_catch(NewError(<<"Table ", r.tableIdOrName[1], " not found">>))
             ELSE IF log[2].outcome = "rejected" THEN searchRecords_catch(log[2].error)
             ELSE LET names == searchFieldNamesOf(found[1], r.fieldIds)
                  IN  IF names = <<>>
                      THEN searchRecords_catch(NewError(<<"No searchable fields found">>))
                      ELSE Return(Simplify(matchingRecords(log[2].response, names,
                                                           r.searchTerm[1])))

\* every finished request has the result of its run alone
ResultsAsAlone ==
    \A p \in Requests : pc[p] = "done" => result[p] = RunAlone(req[p], calls[p])

\* one request run at a time ends with the result of RunAlone
SequentialAsAlone ==
    (req.handler = "searchRecords" /\ pc = "done") => result = RunAlone(req, calls)

\* C15: concurrent requests share no mutable state: whatever the interleaving
\* of their suspend points, each request ends with the result it would have
\* when run alone against the same remote answers, and the module-level
\* credential is never written after startup.
C15_RequestsAreIndependent == []ResultsAsAlone /\ [][apiKey' = apiKey]_vars

\* r1 has returned a record of the table with text fields while r2, which
\* found the table with the number field, awaits its records
C15_Witness ==
    /\ pc["r1"] = "done"
    /\ result["r1"].kind = "return"
    /\ Len(result["r1"].body) = 1
    /\ pc["r2"] = "searchRecords_select"
    /\ Len(table["r1"].fields) = 2
    /\ Len(table["r2"].fields) = 1
====
